---- MODULE Spec2Model ----
(***************************************************************************)
(* A model of src/main.py: the tokenizer get_tokens, the Pratt parser AST  *)
(* (parse_expression and the prefix / infix / parenthesis rules, with the  *)
(* cursor token_ptr, token, peeked_token and peeked_precedence kept as     *)
(* object fields shared by all recursive calls), the string rendering of   *)
(* the tree (__str__) and the evaluator tree_walk_eval.                    *)
(*                                                                         *)
(* Strings are sequences of one-character strings.  token_ptr is 0-based   *)
(* as in the source; At(s, i) reads s[i] of the source.  The recursion of  *)
(* the parser is an explicit stack of frames, one action per stretch of    *)
(* code between two calls or returns.  An IndexError raised by a list      *)
(* access ends the construction with status "IndexError".                  *)
(***************************************************************************)
EXTENDS Integers, Sequences, FiniteSets, TLC

VARIABLES
    stmt,               \* the expression statement handed to AST(stmt)
    status,             \* "new", "parsing", "parsed", "evaled", "IndexError"
    tokens,             \* self.tokens
    token_ptr,          \* self.token_ptr
    token,              \* self.token
    peeked_token,       \* self.peeked_token
    peeked_precedence,  \* self.peeked_precedence
    stack,              \* the call stack of the parser, innermost call last
    ret,                \* the value the last finished call returned
    exp,                \* self.exp
    evaled,             \* the result of tree_walk_eval(ast.exp)
    round,              \* 1: stmt is the input; 2: stmt is str() of the first tree
    first,              \* the tree and result of round 1, kept for round 2
    failed              \* history: the rules that returned None for want of a
                        \* token, "UnexpectedToken" (line 83) and
                        \* "UnclosedParenthesis" (line 76)

vars == <<stmt, status, tokens, token_ptr, token, peeked_token,
          peeked_precedence, stack, ret, exp, evaled, round, first, failed>>

-----------------------------------------------------------------------------
(* Bounds of the model *)

\* longest input statement of the specification Spec
MaxLen == 5
\* longest well-formed expression of the specification SpecWF
MaxWF == 7
\* longest arbitrary statement of the specification SpecWF
MaxShort == 2
\* tree_walk_eval is tracked exactly while numerators and denominators stay
\* within MaxExact; beyond it the result is Untracked
MaxExact == 30000

-----------------------------------------------------------------------------
(* Characters and strings *)

DigitChars == <<"0", "1", "2", "3", "4", "5", "6", "7", "8", "9">>

isdigit(c) == \E i \in 1..Len(DigitChars) : DigitChars[i] = c

DigitVal(c) == (CHOOSE i \in 1..Len(DigitChars) : DigitChars[i] = c) - 1

OperatorChars == {"+", "-", "*", "/", "^", "(", ")"}

At(s, i) == s[i + 1]

\* Python's None as a token value: no string of characters equals it
None == <<"None">>

-----------------------------------------------------------------------------
(* class Token and get_tokens *)

Token(type_, val) == [type_ |-> type_, val |-> val]

RECURSIVE DigitRun(_, _)
\* the while loop of get_tokens: the digits from position i (0-based) up to
\* the first non-digit or the end of stmt
DigitRun(s, i) ==
    IF i >= Len(s) \/ ~isdigit(At(s, i)) THEN <<>>
    ELSE <<At(s, i)>> \o DigitRun(s, i + 1)

RECURSIVE TokensFrom(_, _)
\* the for loop of get_tokens from index i on: a digit appends one NUM token
\* holding the digits from i on, an operator character appends its own
\* token, any other character appends nothing
TokensFrom(s, i) ==
    IF i >= Len(s) THEN <<>>
    ELSE LET char == At(s, i)
             num  == IF isdigit(char)
                     THEN <<Token("NUM", DigitRun(s, i))>> ELSE <<>>
             op   == IF char \in OperatorChars
                     THEN <<Token(char, <<char>>)>> ELSE <<>>
         IN  num \o op \o TokensFrom(s, i + 1)

get_tokens(s) == TokensFrom(s, 0) \o <<Token("EOF", None)>>

-----------------------------------------------------------------------------
(* class Precedence *)

LOWEST   == [name |-> "LOWEST",   value |-> 1]
SUM      == [name |-> "SUM",      value |-> 2]
PRODUCT  == [name |-> "PRODUCT",  value |-> 3]
EXPONENT == [name |-> "EXPONENT", value |-> 4]
\* a Precedence in which PREFIX is ranked below EXPONENT
PREFIX_BelowExponent == [name |-> "PREFIX", value |-> 3]

PREFIX   == [name |-> "PREFIX",   value |-> 5]

\* peeked_precedence before parse_expression first assigns it
Unset == [name |-> "unset", value |-> 0]

\* self.precedences.get(key, default)
precedences_get(key, default) ==
    CASE key \in {"+", "-"} -> SUM
      [] key \in {"*", "/"} -> PRODUCT
      [] key = "^"          -> EXPONENT
      [] OTHER              -> default

\* self.prefix_funcs.get(key, None)
prefix_funcs_get(key) ==
    CASE key = "-"   -> "parse_prefix_exp"
      [] key = "NUM" -> "parse_num"
      [] key = "("   -> "parse_paren"
      [] OTHER       -> "None"

\* self.infix_funcs.get(key, None)
infix_funcs_get(key) ==
    IF key \in {"+", "-", "*", "/", "^"} THEN "parse_infix_exp" ELSE "None"

-----------------------------------------------------------------------------
(* The nodes of the tree.  The token field of a node is written once and   *)
(* never read, and is left out.                                            *)

NoneExp == [kind |-> "None"]

Num(val) == [kind |-> "Num", val |-> val]

PrefixExp(operator, right) ==
    [kind |-> "PrefixExp", operator |-> operator, right |-> right]

InfixExp(left, operator, right) ==
    [kind |-> "InfixExp", left |-> left, operator |-> operator, right |-> right]

RECURSIVE StrToNat(_)
\* float(self.token.val) on a string of digits
StrToNat(s) ==
    IF s = <<>> THEN 0
    ELSE 10 * StrToNat(SubSeq(s, 1, Len(s) - 1)) + DigitVal(s[Len(s)])

\* parse_num
parse_num(tok) == Num(StrToNat(tok.val))

-----------------------------------------------------------------------------
(* The call stack *)

\* a call parse_expression(precedence); pc is the place the call has reached:
\* "entry" (line 81), "prefix_func" (line 84, waiting for the prefix rule),
\* "while" (line 91, about to test the loop condition), "infix_func"
\* (line 100, waiting for the infix rule)
Frame(precedence) ==
    [fn |-> "parse_expression", pc |-> "entry", precedence |-> precedence,
     left_exp |-> NoneExp]

Top == stack[Len(stack)]

Pop == SubSeq(stack, 1, Len(stack) - 1)

SetTop(f) == Pop \o <<f>>

Running(fn, pc) ==
    /\ status = "parsing"
    /\ stack # <<>>
    /\ Top.fn = fn
    /\ fn = "parse_expression" => Top.pc = pc

NoToken == Token("unset", None)

-----------------------------------------------------------------------------
(* AST.__init__ *)

Construct ==
    /\ status = "new"
    /\ LET toks == get_tokens(stmt)
       IN  /\ tokens' = toks
           /\ token_ptr' = 0
           /\ token' = At(toks, 0)
           /\ IF 1 >= Len(toks)
              THEN \* self.tokens[self.token_ptr + 1] raises IndexError
                   /\ status' = "IndexError"
                   /\ UNCHANGED <<peeked_token, stack>>
              ELSE /\ status' = "parsing"
                   /\ peeked_token' = At(toks, 1)
                   /\ stack' = <<Frame(LOWEST)>>
    /\ UNCHANGED <<stmt, peeked_precedence, ret, exp, evaled, round, first, failed>>

-----------------------------------------------------------------------------
(* parse_expression, lines 81-84, and the prefix rule it calls up to the   *)
(* rule's own call of parse_expression                                     *)

\* line 82-83: no prefix rule for the current token
NoPrefixFunc ==
    /\ Running("parse_expression", "entry")
    /\ prefix_funcs_get(token.type_) = "None"
    /\ ret' = NoneExp
    /\ stack' = Pop
    /\ failed' = failed \cup {"UnexpectedToken"}
    /\ UNCHANGED <<stmt, status, tokens, token_ptr, token, peeked_token,
                   peeked_precedence, exp, evaled, round, first>>

\* parse_num: no call, the number is the prefix rule's result
ParseNum ==
    /\ Running("parse_expression", "entry")
    /\ prefix_funcs_get(token.type_) = "parse_num"
    /\ ret' = parse_num(token)
    /\ stack' = SetTop([Top EXCEPT !.pc = "prefix_func"])
    /\ UNCHANGED <<stmt, status, tokens, token_ptr, token, peeked_token,
                   peeked_precedence, exp, evaled, round, first, failed>>

\* the cursor moves on one token and the rule `fn` calls
\* parse_expression(precedence); `fr` is the rule's frame
CallFromPrefixRule(fr, precedence) ==
    /\ token_ptr' = token_ptr + 1
    /\ IF token_ptr + 1 >= Len(tokens)
       THEN /\ status' = "IndexError"
            /\ UNCHANGED <<token, stack>>
       ELSE /\ token' = At(tokens, token_ptr + 1)
            /\ stack' = SetTop([Top EXCEPT !.pc = "prefix_func"])
                            \o <<fr, Frame(precedence)>>
            /\ UNCHANGED status
    /\ UNCHANGED <<stmt, tokens, peeked_token, peeked_precedence, ret, exp,
                   evaled, round, first, failed>>

\* parse_prefix_exp, lines 30-37
ParsePrefixExp ==
    /\ Running("parse_expression", "entry")
    /\ prefix_funcs_get(token.type_) = "parse_prefix_exp"
    /\ CallFromPrefixRule([fn |-> "parse_prefix_exp",
                           exp |-> PrefixExp(token.val, NoneExp)], PREFIX)

\* parse_paren, lines 66-72
ParseParen ==
    /\ Running("parse_expression", "entry")
    /\ prefix_funcs_get(token.type_) = "parse_paren"
    /\ CallFromPrefixRule([fn |-> "parse_paren"], LOWEST)

\* parse_prefix_exp, lines 35-38: the operand is back
ReturnPrefixExp ==
    /\ Running("parse_prefix_exp", "")
    /\ ret' = [Top.exp EXCEPT !.right = ret]
    /\ stack' = Pop
    /\ UNCHANGED <<stmt, status, tokens, token_ptr, token, peeked_token,
                   peeked_precedence, exp, evaled, round, first, failed>>

\* expect_peek(token_type), judged on the cached peeked_token
expect_peek(token_type) == peeked_token.type_ = token_type

\* parse_paren, lines 75-77, with expect_peek(")"), lines 121-126
ReturnParen ==
    /\ Running("parse_paren", "")
    /\ IF expect_peek(")")
       THEN /\ token_ptr' = token_ptr + 1
            /\ IF token_ptr + 1 >= Len(tokens)
               THEN /\ status' = "IndexError"
                    /\ UNCHANGED <<token, stack, ret, failed>>
               ELSE /\ token' = At(tokens, token_ptr + 1)
                    /\ stack' = Pop
                    /\ UNCHANGED <<status, ret, failed>>
       ELSE /\ ret' = NoneExp
            /\ stack' = Pop
            /\ failed' = failed \cup {"UnclosedParenthesis"}
            /\ UNCHANGED <<status, token_ptr, token>>
    /\ UNCHANGED <<stmt, tokens, peeked_token, peeked_precedence, exp,
                   evaled, round, first>>

-----------------------------------------------------------------------------
(* parse_expression, lines 84-101 *)

\* lines 84-90: the prefix rule returned left_exp
AfterPrefixFunc ==
    /\ Running("parse_expression", "prefix_func")
    /\ IF token_ptr + 1 >= Len(tokens)
       THEN /\ stack' = Pop
            /\ UNCHANGED <<peeked_token, peeked_precedence>>
       ELSE /\ peeked_token' = At(tokens, token_ptr + 1)
            /\ peeked_precedence' =
                   precedences_get(At(tokens, token_ptr + 1).type_, LOWEST)
            /\ stack' = SetTop([Top EXCEPT !.pc = "while", !.left_exp = ret])
    /\ UNCHANGED <<stmt, status, tokens, token_ptr, token, ret, exp, evaled,
                   round, first, failed>>

\* the loop condition with <= for <
WhileCondition_NotStrict ==
    /\ peeked_token.type_ # "EOF"
    /\ Top.precedence.value <= peeked_precedence.value

\* the loop condition, lines 91-94
WhileCondition ==
    /\ peeked_token.type_ # "EOF"
    /\ Top.precedence.value < peeked_precedence.value

\* line 101: the loop condition fails
WhileExit ==
    /\ Running("parse_expression", "while")
    /\ ~WhileCondition
    /\ ret' = Top.left_exp
    /\ stack' = Pop
    /\ UNCHANGED <<stmt, status, tokens, token_ptr, token, peeked_token,
                   peeked_precedence, exp, evaled, round, first, failed>>

\* lines 95-100 and parse_infix_exp, lines 45-54: the loop body up to the
\* call parse_expression(precedence) for the right operand
WhileBody ==
    /\ Running("parse_expression", "while")
    /\ WhileCondition
    /\ IF infix_funcs_get(peeked_token.type_) = "None"
       THEN /\ ret' = Top.left_exp
            /\ stack' = Pop
            /\ UNCHANGED <<status, token_ptr, token>>
       ELSE IF token_ptr + 1 >= Len(tokens)
       THEN \* line 99 raises IndexError
            /\ token_ptr' = token_ptr + 1
            /\ status' = "IndexError"
            /\ UNCHANGED <<token, stack, ret>>
       ELSE IF token_ptr + 2 >= Len(tokens)
       THEN \* line 53 raises IndexError
            /\ token_ptr' = token_ptr + 2
            /\ token' = At(tokens, token_ptr + 1)
            /\ status' = "IndexError"
            /\ UNCHANGED <<stack, ret>>
       ELSE LET operator == At(tokens, token_ptr + 1)
                precedence == precedences_get(operator.type_, LOWEST)
            IN  /\ token_ptr' = token_ptr + 2
                /\ token' = At(tokens, token_ptr + 2)
                /\ stack' = SetTop([Top EXCEPT !.pc = "infix_func"])
                              \o <<[fn |-> "parse_infix_exp",
                                    exp |-> InfixExp(Top.left_exp, operator.val,
                                                     NoneExp)],
                                   Frame(precedence)>>
                /\ UNCHANGED <<status, ret>>
    /\ UNCHANGED <<stmt, tokens, peeked_token, peeked_precedence, exp, evaled,
                   round, first, failed>>

\* parse_infix_exp, lines 54-55: the right operand is back
ReturnInfixExp ==
    /\ Running("parse_infix_exp", "")
    /\ ret' = [Top.exp EXCEPT !.right = ret]
    /\ stack' = Pop
    /\ UNCHANGED <<stmt, status, tokens, token_ptr, token, peeked_token,
                   peeked_precedence, exp, evaled, round, first, failed>>

\* line 100: left_exp = infix_func(left_exp), then back to the loop condition
AfterInfixFunc ==
    /\ Running("parse_expression", "infix_func")
    /\ stack' = SetTop([Top EXCEPT !.pc = "while", !.left_exp = ret])
    /\ UNCHANGED <<stmt, status, tokens, token_ptr, token, peeked_token,
                   peeked_precedence, ret, exp, evaled, round, first, failed>>

\* AST.__init__, line 25: self.exp = the outermost call's result
Finish ==
    /\ status = "parsing"
    /\ stack = <<>>
    /\ exp' = ret
    /\ status' = "parsed"
    /\ UNCHANGED <<stmt, tokens, token_ptr, token, peeked_token,
                   peeked_precedence, stack, ret, evaled, round, first, failed>>

-----------------------------------------------------------------------------
(* tree_walk_eval.  Floats are modelled as exact fractions n/d in lowest   *)
(* terms with d > 0.  The outcome of an evaluation is a number             *)
(* [k |-> "val"], Python's None [k |-> "None"], a raised exception         *)
(* [k |-> "TypeError"] or [k |-> "ZeroDivisionError"], or                  *)
(* [k |-> "Untracked"]: a result outside the fractions within MaxExact     *)
(* (a large or rounded float, a complex number or an OverflowError), of    *)
(* which the model says nothing.                                           *)

NoneV == [k |-> "None"]
TypeError == [k |-> "TypeError"]
ZeroDivisionError == [k |-> "ZeroDivisionError"]
Untracked == [k |-> "Untracked"]

Raised(v) == v.k \in {"TypeError", "ZeroDivisionError"}

Abs(n) == IF n < 0 THEN -n ELSE n

RECURSIVE GCD(_, _)
GCD(a, b) == IF b = 0 THEN a ELSE GCD(b, a % b)

\* the float n/d, d > 0
Float(n, d) ==
    LET g == GCD(Abs(n), d)
    IN  IF Abs(n) \div g > MaxExact \/ d \div g > MaxExact THEN Untracked
        ELSE [k |-> "val", n |-> n \div g, d |-> d \div g]

RECURSIVE PowerLoop(_, _, _)
\* acc * base^e for a whole e >= 0 and a base other than 0, 1, -1
PowerLoop(acc, base, e) ==
    IF e = 0 \/ acc.k # "val" THEN acc
    ELSE PowerLoop(Float(acc.n * base.n, acc.d * base.d), base, e - 1)

\* left ** right on two floats, lines 151-152
Power(l, r) ==
    IF r.d # 1 THEN Untracked
    ELSE IF r.n = 0 THEN Float(1, 1)
    ELSE IF l.n = 0 THEN IF r.n < 0 THEN ZeroDivisionError ELSE Float(0, 1)
    ELSE IF Abs(l.n) = 1 /\ l.d = 1
         THEN IF r.n % 2 = 0 THEN Float(1, 1) ELSE l
    ELSE IF r.n > 0 THEN PowerLoop(Float(1, 1), l, r.n)
    ELSE PowerLoop(Float(1, 1),
                   [k |-> "val", n |-> IF l.n < 0 THEN -l.d ELSE l.d,
                    d |-> Abs(l.n)], -r.n)

\* a division that yields an infinity or a not-a-number for a zero divisor
Divide_IEEE(l, r) ==
    IF r.n = 0 THEN Untracked
    ELSE Float(IF r.n < 0 THEN -(l.n * r.d) ELSE l.n * r.d, l.d * Abs(r.n))

\* left / right on two floats, lines 149-150
Divide(l, r) ==
    IF r.n = 0 THEN ZeroDivisionError
    ELSE Float(IF r.n < 0 THEN -(l.n * r.d) ELSE l.n * r.d, l.d * Abs(r.n))

\* the arithmetic of lines 143-152 on the operands' values; an operator
\* that is none of the five falls through every branch and yields None
Arith(operator, l, r) ==
    IF operator \notin {<<"+">>, <<"-">>, <<"*">>, <<"/">>, <<"^">>} THEN NoneV
    ELSE IF l.k = "None" \/ r.k = "None" THEN TypeError
    ELSE IF l.k = "Untracked" \/ r.k = "Untracked" THEN Untracked
    ELSE CASE operator = <<"+">> -> Float(l.n * r.d + r.n * l.d, l.d * r.d)
           [] operator = <<"-">> -> Float(l.n * r.d - r.n * l.d, l.d * r.d)
           [] operator = <<"*">> -> Float(l.n * r.n, l.d * r.d)
           [] operator = <<"/">> -> Divide(l, r)
           [] operator = <<"^">> -> Power(l, r)

\* -right, line 139
Negate(operator, r) ==
    IF operator # <<"-">> THEN NoneV
    ELSE IF r.k = "None" THEN TypeError
    ELSE IF r.k = "Untracked" THEN Untracked
    ELSE Float(-r.n, r.d)

RECURSIVE tree_walk_eval(_)
tree_walk_eval(node) ==
    CASE node.kind = "Num" -> Float(node.val, 1)
      [] node.kind = "PrefixExp" ->
            LET right == tree_walk_eval(node.right)
            IN  IF Raised(right) THEN right ELSE Negate(node.operator, right)
      [] node.kind = "InfixExp" ->
            LET left == tree_walk_eval(node.left)
            IN  IF Raised(left) THEN left
                ELSE LET right == tree_walk_eval(node.right)
                     IN  IF Raised(right) THEN right
                         ELSE Arith(node.operator, left, right)
      [] OTHER -> NoneV

\* __main__, line 249: evaled = tree_walk_eval(ast.exp)
Eval ==
    /\ status = "parsed"
    /\ evaled' = tree_walk_eval(exp)
    /\ status' = "evaled"
    /\ UNCHANGED <<stmt, tokens, token_ptr, token, peeked_token,
                   peeked_precedence, stack, ret, exp, round, first, failed>>

-----------------------------------------------------------------------------
(* __str__ of the nodes, and a second AST built from the rendered string   *)

RECURSIVE NatToStr(_)
NatToStr(n) ==
    IF n < 10 THEN <<DigitChars[n + 1]>>
    ELSE NatToStr(n \div 10) \o <<DigitChars[(n % 10) + 1]>>

RECURSIVE Str(_)
\* Num.__str__ prints the float: its digits, a point and a zero;
\* PrefixExp.__str__ is "(" operator right ")"; InfixExp.__str__ is
\* "(" left " " operator " " right ")"; str(None) is "None"
Str(node) ==
    CASE node.kind = "Num" -> NatToStr(node.val) \o <<".", "0">>
      [] node.kind = "PrefixExp" ->
            <<"(">> \o node.operator \o Str(node.right) \o <<")">>
      [] node.kind = "InfixExp" ->
            <<"(">> \o Str(node.left) \o <<" ">> \o node.operator \o <<" ">>
                \o Str(node.right) \o <<")">>
      [] OTHER -> <<"N", "o", "n", "e">>

NoFirst == [exp |-> NoneExp, evaled |-> NoneV]

\* AST(str(ast.exp)): the tree of round 1 is rendered and parsed again
Reparse ==
    /\ status = "evaled"
    /\ round = 1
    /\ first' = [exp |-> exp, evaled |-> evaled]
    /\ stmt' = Str(exp)
    /\ round' = 2
    /\ status' = "new"
    /\ tokens' = <<>>
    /\ token_ptr' = 0
    /\ token' = NoToken
    /\ peeked_token' = NoToken
    /\ peeked_precedence' = Unset
    /\ stack' = <<>>
    /\ ret' = NoneExp
    /\ exp' = NoneExp
    /\ evaled' = NoneV
    /\ failed' = {}

-----------------------------------------------------------------------------
(* Inputs *)

\* the characters of the input statements: digits, the operators and
\* parentheses, a space
InputDigits == {"0", "2", "3"}
BinaryOperators == {"+", "-", "*", "/", "^"}
Alphabet == InputDigits \cup OperatorChars \cup {" "}

\* all statements of at most n characters
Statements(n) == UNION {[1..k -> Alphabet] : k \in 0..n}

InitWith(inputs) ==
    /\ stmt \in inputs
    /\ status = "new"
    /\ tokens = <<>>
    /\ token_ptr = 0
    /\ token = NoToken
    /\ peeked_token = NoToken
    /\ peeked_precedence = Unset
    /\ stack = <<>>
    /\ ret = NoneExp
    /\ exp = NoneExp
    /\ evaled = NoneV
    /\ round = 1
    /\ first = NoFirst
    /\ failed = {}

Init == InitWith(Statements(MaxLen))

Next ==
    \/ Construct
    \/ NoPrefixFunc
    \/ ParseNum
    \/ ParsePrefixExp
    \/ ParseParen
    \/ ReturnPrefixExp
    \/ ReturnParen
    \/ AfterPrefixFunc
    \/ WhileExit
    \/ WhileBody
    \/ ReturnInfixExp
    \/ AfterInfixFunc
    \/ Finish
    \/ Eval
    \/ Reparse

Spec == Init /\ [][Next]_vars

-----------------------------------------------------------------------------
(* Well-formed inputs: the expressions of the grammar                      *)
(*     E ::= digit | - E | ( E ) | E operator E                            *)

WFDigits == {"0", "2"}

RECURSIVE WellFormedOfLen(_)
WellFormedOfLen(n) ==
    IF n = 1 THEN {<<d>> : d \in WFDigits}
    ELSE {<<"-">> \o e : e \in WellFormedOfLen(n - 1)}
         \cup (IF n < 3 THEN {}
               ELSE {<<"(">> \o e \o <<")">> : e \in WellFormedOfLen(n - 2)})
         \cup UNION {{a \o <<o>> \o b : a \in WellFormedOfLen(i),
                                       o \in BinaryOperators,
                                       b \in WellFormedOfLen(n - 1 - i)} :
                     i \in 1..(n - 2)}

WellFormed(n) == UNION {WellFormedOfLen(k) : k \in 1..n}

InitWF == InitWith(WellFormed(MaxWF) \cup Statements(MaxShort))

SpecWF == InitWF /\ [][Next]_vars

-----------------------------------------------------------------------------
(* Helpers of the properties *)

\* the first construction has ended with a tree or with None in self.exp
Parsed == round = 1 /\ status \in {"parsed", "evaled"}

RECURSIVE Nodes(_)
\* the nodes of a tree
Nodes(node) ==
    CASE node.kind = "PrefixExp" -> {node} \cup Nodes(node.right)
      [] node.kind = "InfixExp" ->
            {node} \cup Nodes(node.left) \cup Nodes(node.right)
      [] OTHER -> {node}

Digit(c) == Num(DigitVal(c))

\* a chain digit ^ digit ^ ... ^ digit with two or more "^"
IsCaretChain(s) ==
    /\ Len(s) >= 5
    /\ Len(s) % 2 = 1
    /\ \A i \in 1..Len(s) : IF i % 2 = 1 THEN isdigit(s[i]) ELSE s[i] = "^"

RECURSIVE RightAssociated(_)
\* the tree a ^ (b ^ (c ^ ...)) of a caret chain
RightAssociated(s) ==
    IF Len(s) = 1 THEN Digit(s[1])
    ELSE InfixExp(Digit(s[1]), <<"^">>, RightAssociated(SubSeq(s, 3, Len(s))))

\* the statement "-a^b" on two digits
IsNegatedPower(s) ==
    /\ Len(s) = 4
    /\ s[1] = "-" /\ isdigit(s[2]) /\ s[3] = "^" /\ isdigit(s[4])

(* The reference grammar of C3, a recursive descent on the characters:     *)
(*     Sum     ::= Product { ("+" | "-") Product }                         *)
(*     Product ::= Operand { ("*" | "/") Operand }                         *)
(*     Operand ::= digit | "(" Sum ")"                                     *)
(* Each operator yields [ok, e, p]: whether it matched, the tree, and the  *)
(* 1-based position after the match.                                       *)
NoMatch == [ok |-> FALSE, e |-> NoneExp, p |-> 0]

RECURSIVE RefSum(_, _), RefSumRest(_, _), RefProduct(_, _),
          RefProductRest(_, _), RefOperand(_, _)

RefOperand(s, p) ==
    IF p > Len(s) THEN NoMatch
    ELSE IF isdigit(s[p]) THEN [ok |-> TRUE, e |-> Digit(s[p]), p |-> p + 1]
    ELSE IF s[p] = "("
         THEN LET inner == RefSum(s, p + 1)
              IN  IF inner.ok /\ inner.p <= Len(s) /\ s[inner.p] = ")"
                  THEN [inner EXCEPT !.p = inner.p + 1]
                  ELSE NoMatch
    ELSE NoMatch

RefProductRest(s, left) ==
    IF left.p <= Len(s) /\ s[left.p] \in {"*", "/"}
    THEN LET right == RefOperand(s, left.p + 1)
         IN  IF right.ok
             THEN RefProductRest(s, [ok |-> TRUE,
                                     e |-> InfixExp(left.e, <<s[left.p]>>, right.e),
                                     p |-> right.p])
             ELSE NoMatch
    ELSE left

RefProduct(s, p) ==
    LET left == RefOperand(s, p)
    IN  IF left.ok THEN RefProductRest(s, left) ELSE NoMatch

RefSumRest(s, left) ==
    IF left.p <= Len(s) /\ s[left.p] \in {"+", "-"}
    THEN LET right == RefProduct(s, left.p + 1)
         IN  IF right.ok
             THEN RefSumRest(s, [ok |-> TRUE,
                                 e |-> InfixExp(left.e, <<s[left.p]>>, right.e),
                                 p |-> right.p])
             ELSE NoMatch
    ELSE left

RefSum(s, p) ==
    LET left == RefProduct(s, p)
    IN  IF left.ok THEN RefSumRest(s, left) ELSE NoMatch

\* s is a well-formed expression of the reference grammar
IsArithmetic(s) == LET r == RefSum(s, 1) IN r.ok /\ r.p = Len(s) + 1

Reference(s) == RefSum(s, 1).e

\* the maximal runs of digits of s
DigitRuns(s) ==
    {i \in 1..Len(s) : isdigit(s[i]) /\ (i = 1 \/ ~isdigit(s[i - 1]))}

NumTokens == {i \in 1..Len(tokens) : tokens[i].type_ = "NUM"}

\* a division whose operands evaluate to numbers, the right one to zero
IsDivisionByZero(node) ==
    /\ node.kind = "InfixExp"
    /\ node.operator = <<"/">>
    /\ tree_walk_eval(node.left).k = "val"
    /\ tree_walk_eval(node.right) = Float(0, 1)

-----------------------------------------------------------------------------
(* The properties *)

\* C1: a chain of digits joined by two or more "^" is parsed to the
\* right-associated tree a ^ (b ^ c), and evaluates to that tree's value.
C1_RightAssociative ==
    (Parsed /\ IsCaretChain(stmt)) =>
        /\ exp = RightAssociated(stmt)
        /\ status = "evaled" => evaled = tree_walk_eval(RightAssociated(stmt))

\* C2 as stated: "-a^b" is parsed to the negation of the power, -(a^b).
C2_NegationOfPower ==
    (Parsed /\ IsNegatedPower(stmt)) =>
        exp = PrefixExp(<<"-">>,
                        InfixExp(Digit(stmt[2]), <<"^">>, Digit(stmt[4])))

\* C2 as amended: "-a^b" on two digits is parsed to the power of the
\* negation, (-a)^b: the operand of the unary minus is parsed at PREFIX,
\* which "^" (EXPONENT) does not exceed.
C2_PowerOfNegation ==
    (round = 1 /\ IsNegatedPower(stmt)) =>
        /\ status # "IndexError"
        /\ Parsed =>
              exp = InfixExp(PrefixExp(<<"-">>, Digit(stmt[2])), <<"^">>,
                             Digit(stmt[4]))

C2_Witness ==
    /\ Parsed
    /\ stmt = <<"-", "2", "^", "2">>
    /\ status = "evaled"
    /\ evaled = Float(4, 1)

\* C3: a well-formed expression of single digits, + - * / and parentheses
\* is parsed to the tree of the reference grammar (* and / bind tighter
\* than + and -, equal precedence groups left to right, a parenthesised
\* group is one operand).
C3_ReferenceTree ==
    (round = 1 /\ IsArithmetic(stmt)) =>
        /\ status # "IndexError"
        /\ Parsed => exp = Reference(stmt)

C3_Witness ==
    /\ Parsed
    /\ stmt = <<"(", "2", "-", "2", ")", "-", "0">>
    /\ exp = InfixExp(InfixExp(Num(2), <<"-">>, Num(2)), <<"-">>, Num(0))

\* C4: get_tokens yields exactly one NUM token for each maximal run of
\* digits of the statement.
C4_OneNumPerRun ==
    status # "new" => Cardinality(NumTokens) = Cardinality(DigitRuns(stmt))

\* C5: when parse_paren does not find ")" after the inner expression, the
\* construction yields no expression.
C5_UnclosedFails ==
    (Parsed /\ "UnclosedParenthesis" \in failed) => exp = NoneExp

\* C6: when a parse_expression call finds a token with no prefix rule (or
\* the statement has no token at all), the construction ends with no
\* expression, and not with another error.
C6_UnexpectedTokenFails ==
    (/\ round = 1
     /\ status \in {"parsed", "evaled", "IndexError"}
     /\ \/ "UnexpectedToken" \in failed
        \/ prefix_funcs_get(tokens[1].type_) = "None")
    => (status # "IndexError" /\ exp = NoneExp)

\* C7: every PrefixExp and InfixExp node of a tree the parser returns has
\* an operator among + - * / ^.
C7_OperatorsRegistered ==
    Parsed =>
        \A node \in Nodes(exp) :
            node.kind \in {"PrefixExp", "InfixExp"} =>
                node.operator \in {<<o>> : o \in BinaryOperators}

\* C8: the rendered string of a tree that evaluates to a number is parsed
\* to a tree that evaluates to the same number.
C8_RoundTrip ==
    (round = 2 /\ first.evaled.k = "val") =>
        /\ status # "IndexError"
        /\ status = "evaled" => evaled = first.evaled

\* C9 as stated: a division by zero is evaluated to a value, not an error.
C9_DivisionByZeroIsValue ==
    (status = "evaled" /\ round = 1 /\ IsDivisionByZero(exp)) =>
        ~Raised(evaled)

\* C9 as amended: tree_walk_eval of a division whose operands evaluate to
\* numbers, the right one to zero, raises ZeroDivisionError, and so does
\* not return a value for any tree that holds such a division.
C9_DivisionByZeroRaises ==
    (status = "evaled" /\ round = 1) =>
        /\ \A node \in Nodes(exp) :
              IsDivisionByZero(node) =>
                  /\ tree_walk_eval(node) = ZeroDivisionError
                  /\ Raised(evaled)
        /\ IsDivisionByZero(exp) => evaled = ZeroDivisionError

C9_Witness ==
    /\ status = "evaled"
    /\ round = 1
    /\ stmt = <<"2", "/", "(", "2", "-", "2", ")">>
    /\ IsDivisionByZero(exp)
    /\ evaled = ZeroDivisionError

\* C10: whenever parse_expression tests its loop condition, peeked_token is
\* the token at token_ptr + 1 and peeked_precedence is its precedence.
C10_LookaheadFresh ==
    Running("parse_expression", "while") =>
        /\ token_ptr + 1 < Len(tokens)
        /\ peeked_token = At(tokens, token_ptr + 1)
        /\ peeked_precedence = precedences_get(peeked_token.type_, LOWEST)

====
